---------------------------- MODULE Spec2Model ----------------------------
(***************************************************************************)
(* A model of the receipt recognizer: the geometry helpers (utils.py), the *)
(* preprocessing pipeline (receipt_processor.py), the OCR fallback chain   *)
(* (ocr_engine.py), the text parser (parser.py) and the two command-line   *)
(* drivers (shoper.py, shoper_multi.py).                                   *)
(*                                                                         *)
(* Texts are sequences of one-character strings, so that trimming, line    *)
(* splitting and the regular expressions of the parser are computed        *)
(* character by character.  An optional value (Python None or a value) is  *)
(* a sequence of length 0 or 1.  A monetary amount is counted in           *)
(* hundredths, which is exact for the at most two fractional digits the    *)
(* parser's number pattern admits.                                         *)
(***************************************************************************)
EXTENDS Integers, Sequences, FiniteSets, TLC

VARIABLES
    \* the drivers (shoper.py, shoper_multi.py)
    main_pc,    \* position of the driver's main()
    text,       \* the text handed to parse_receipt_text
    summary,    \* the record parse_receipt_text returned, as an optional
    written,    \* the receipts whose <base>_summary.json has been written
    results,    \* shoper_multi: the (base, ProcessResult) pairs of process_all
    idx,        \* shoper_multi: number of pairs the for loop has taken
    combined,   \* shoper_multi: the combined list
    combined_written, \* shoper_multi: whether <stem>_multi.json was written
    \* ReceiptProcessor.process
    stage,      \* the stage process() executes next
    opts,       \* readable image?, self.adaptive, self.save_steps
    loc,        \* the local variables of process()
    trace,      \* the stages executed so far, in order
    corr,       \* how the try block of the perspective correction ended
    result,     \* the ProcessResult process() returned, as an optional
    \* ocr_image
    ocr_pc,     \* position inside ocr_image
    ocr_arg,    \* the ProcessResult ocr_image was called with
    ocr_text,   \* the local variable text of ocr_image
    attempts,   \* the image_to_string calls made so far, with their results
    \* order_points applied on its own
    pts,        \* the 4 input points
    rect,       \* order_points(pts), as an optional
    rect2       \* order_points(order_points(pts)), as an optional

main_vars == <<main_pc, text, summary, written, results, idx, combined,
               combined_written>>
proc_vars == <<stage, opts, loc, trace, corr, result>>
ocr_vars == <<ocr_pc, ocr_arg, ocr_text, attempts>>
geom_vars == <<pts, rect, rect2>>
vars == <<main_vars, proc_vars, ocr_vars, geom_vars>>

None == <<>>
Some(v) == <<v>>

Min(S) == CHOOSE x \in S : \A y \in S : x <= y
Max(S) == CHOOSE x \in S : \A y \in S : x >= y

---------------------------------------------------------------------------
(* Characters and the str / re primitives the parser uses.                 *)

Digit == {"0", "1", "2", "3", "4", "5", "6", "7", "8", "9"}
DigitSeq == <<"0", "1", "2", "3", "4", "5", "6", "7", "8", "9">>
UpperSeq == <<"A", "B", "C", "D", "E", "F", "G", "H", "I", "J", "K", "L", "M",
              "N", "O", "P", "Q", "R", "S", "T", "U", "V", "W", "X", "Y", "Z">>
LowerSeq == <<"a", "b", "c", "d", "e", "f", "g", "h", "i", "j", "k", "l", "m",
              "n", "o", "p", "q", "r", "s", "t", "u", "v", "w", "x", "y", "z">>
Upper == {UpperSeq[i] : i \in 1..Len(UpperSeq)}
Lower == {LowerSeq[i] : i \in 1..Len(LowerSeq)}
Alpha == Upper \cup Lower
\* \w of the re module
WordCh == Alpha \cup Digit \cup {"_"}
\* [A-Za-z0-9\-]
TokenCh == Alpha \cup Digit \cup {"-"}
\* \s of the re module and the characters str.strip() removes
Space == {" ", "\t", "\n"}
\* the line boundaries of str.splitlines()
LineBreak == {"\n"}
\* [\,\.]
DecSep == {",", "."}
\* [:#=] and [:#]
AmountSep == {":", "#", "="}
TokenSep == {":", "#"}

\* re.IGNORECASE folds both sides to one case
ToLower(c) ==
    IF c \in Upper
    THEN LowerSeq[CHOOSE i \in 1..Len(UpperSeq) : UpperSeq[i] = c]
    ELSE c

\* the first index j >= i with t[j] outside S (Len(t)+1 when there is none):
\* where a greedy S* starting at i stops
SkipWhile(t, i, S) ==
    Min({j \in i..(Len(t) + 1) : j = Len(t) + 1 \/ t[j] \notin S})

\* str.strip()
strip(s) ==
    LET keep == {i \in 1..Len(s) : s[i] \notin Space}
    IN  IF keep = {} THEN <<>> ELSE SubSeq(s, Min(keep), Max(keep))

\* the first index j >= i with t[j] in S (Len(t)+1 when there is none)
FindFirst(t, i, S) ==
    Min({j \in i..(Len(t) + 1) : j = Len(t) + 1 \/ t[j] \in S})

\* str.splitlines(): a trailing line break opens no further line
RECURSIVE splitlines(_)
splitlines(s) ==
    IF s = <<>> THEN <<>>
    ELSE LET j == FindFirst(s, 1, LineBreak)
         IN  <<SubSeq(s, 1, j - 1)>> \o splitlines(SubSeq(s, j + 1, Len(s)))

\* [ln.strip() for ln in text.splitlines() if ln.strip()]
RECURSIVE StripNonBlank(_)
StripNonBlank(ls) ==
    IF ls = <<>> THEN <<>>
    ELSE LET ln == strip(Head(ls))
         IN  (IF ln = <<>> THEN <<>> ELSE <<ln>>) \o StripNonBlank(Tail(ls))

CleanLines(t) == StripNonBlank(splitlines(t))

\* str.replace(',', '.')
ReplaceComma(v) == [i \in 1..Len(v) |-> IF v[i] = "," THEN "." ELSE v[i]]

DigitVal(c) == (CHOOSE i \in 1..Len(DigitSeq) : DigitSeq[i] = c) - 1

\* int() of a run of digits
RECURSIVE ToInt(_)
ToInt(ds) ==
    IF ds = <<>> THEN 0
    ELSE 10 * ToInt(SubSeq(ds, 1, Len(ds) - 1)) + DigitVal(ds[Len(ds)])

\* float() of digits, optionally followed by "." and one or two digits,
\* in hundredths
ToFloat(v) ==
    LET dots == {i \in 1..Len(v) : v[i] = "."}
    IN  IF dots = {} THEN 100 * ToInt(v)
        ELSE LET d == Min(dots)
                 frac == SubSeq(v, d + 1, Len(v))
             IN  100 * ToInt(SubSeq(v, 1, d - 1))
                 + (IF Len(frac) = 1 THEN 10 * ToInt(frac) ELSE ToInt(frac))

\* a literal of a pattern at position i, letters compared case-insensitively
LitAt(t, i, s) ==
    /\ i + Len(s) - 1 <= Len(t)
    /\ \A k \in 1..Len(s) : ToLower(t[i + k - 1]) = ToLower(s[k])

\* [0-9]+(?:[\,\.][0-9]{1,2})? at position i: the index after the match,
\* 0 when there is no match
NumberEnd(t, i) ==
    LET d == SkipWhile(t, i, Digit)
    IN  IF d = i THEN 0
        ELSE IF d + 1 <= Len(t) /\ t[d] \in DecSep /\ t[d + 1] \in Digit
             THEN (IF d + 2 <= Len(t) /\ t[d + 2] \in Digit THEN d + 3 ELSE d + 2)
             ELSE d

---------------------------------------------------------------------------
(* parser.py: parse_receipt_text                                           *)

\* the pieces of a label pattern: a literal, \s*, or an optional literal
Lit(s) == [t |-> "lit", s |-> s]
Ws == [t |-> "ws", s |-> <<>>]
Opt(s) == [t |-> "opt", s |-> s]

SubtotalLabels ==
    << <<Lit(<<"S", "u", "b">>), Ws, Lit(<<"T", "o", "t", "a", "l">>)>>,
       <<Lit(<<"S", "u", "b", "t", "o", "t", "a", "l">>)>>,
       <<Lit(<<"S", "u", "b">>), Opt(<<"-">>), Lit(<<"T", "o", "t", "a", "l">>)>> >>
TotalLabels ==
    << <<Lit(<<"T", "o", "t", "a", "l">>)>>, <<Lit(<<"T", "O", "T", "A", "L">>)>> >>
CashLabels ==
    << <<Lit(<<"C", "a", "s", "h">>)>>, <<Lit(<<"C", "A", "S", "H">>)>> >>
ChangeLabels ==
    << <<Lit(<<"C", "h", "a", "n", "g", "e">>)>>,
       <<Lit(<<"B", "a", "l", "a", "n", "c", "e">>)>>,
       <<Lit(<<"R", "e", "t", "u", "r", "n">>)>> >>

\* a label pattern from its k-th piece on, at position i: the index after the
\* match, 0 when there is no match
RECURSIVE MatchLabel(_, _, _, _)
MatchLabel(t, i, lab, k) ==
    IF k > Len(lab) THEN i
    ELSE LET e == lab[k]
         IN  CASE e.t = "lit" ->
                    IF LitAt(t, i, e.s) THEN MatchLabel(t, i + Len(e.s), lab, k + 1)
                    ELSE 0
               [] e.t = "ws" -> MatchLabel(t, SkipWhile(t, i, Space), lab, k + 1)
               [] e.t = "opt" ->
                    IF LitAt(t, i, e.s) THEN MatchLabel(t, i + Len(e.s), lab, k + 1)
                    ELSE MatchLabel(t, i, lab, k + 1)

\* rf"{lab}\s*[:#=]?\s*([0-9]+(?:[\,\.][0-9]{{1,2}})?)" at position i: group 1
AmountAt(t, i, lab) ==
    LET e == MatchLabel(t, i, lab, 1)
    IN  IF e = 0 THEN None
        ELSE LET a == SkipWhile(t, e, Space)
                 b == IF a <= Len(t) /\ t[a] \in AmountSep THEN a + 1 ELSE a
                 c == SkipWhile(t, b, Space)
                 n == NumberEnd(t, c)
             IN  IF n = 0 THEN None ELSE Some(SubSeq(t, c, n - 1))

\* re.search: the match at the leftmost position that has one
AmountSearch(t, lab) ==
    LET hits == {i \in 1..Len(t) : AmountAt(t, i, lab) # None}
    IN  IF hits = {} THEN None ELSE AmountAt(t, Min(hits), lab)

\* the first label variant that matches anywhere in the text decides
find_amount(t, label_variants) ==
    LET found == {k \in 1..Len(label_variants) :
                     AmountSearch(t, label_variants[k]) # None}
    IN  IF found = {} THEN None
        ELSE Some(ToFloat(ReplaceComma(
                 AmountSearch(t, label_variants[Min(found)])[1])))

\* r"(<root>\w*\s*[:#]?\s*([A-Za-z0-9\-]+))" at position i: group 2.  The
\* greedy \w* gives characters back until the rest of the pattern matches.
TokenAt(t, i, root) ==
    IF ~LitAt(t, i, root) THEN None
    ELSE LET w0 == i + Len(root)
             wmax == SkipWhile(t, w0, WordCh)
             Rest(k) ==
                 LET a == SkipWhile(t, k, Space)
                     b == IF a <= Len(t) /\ t[a] \in TokenSep THEN a + 1 ELSE a
                     c == SkipWhile(t, b, Space)
                     g == SkipWhile(t, c, TokenCh)
                 IN  IF g > c THEN Some(SubSeq(t, c, g - 1)) ELSE None
             ok == {k \in w0..wmax : Rest(k) # None}
         IN  IF ok = {} THEN None ELSE Rest(Max(ok))

TokenSearch(t, root) ==
    LET hits == {i \in 1..Len(t) : TokenAt(t, i, root) # None}
    IN  IF hits = {} THEN None ELSE TokenAt(t, Min(hits), root)

CashierRoot == <<"C", "a", "s", "h", "i", "e", "r">>
BillRoot == <<"B", "i", "l", "l">>

\* the merchant heuristic over lines[:6]
MerchantLines == 6
MerchantMinLen == 3
find_merchant(lines) ==
    LET n == IF Len(lines) < MerchantLines THEN Len(lines) ELSE MerchantLines
        ok == {i \in 1..n : /\ Len(lines[i]) >= MerchantMinLen
                            /\ \E j \in 1..Len(lines[i]) : lines[i][j] \in Alpha}
    IN  IF ok = {} THEN None ELSE Some(lines[Min(ok)])

\* \s+([0-9]{1,3})\s+([0-9]+(?:[\,\.][0-9]{1,2})?)$ from position i of a line:
\* <<start of group 2, end of group 2, start of group 3>>, or <<>>
QtyMaxDigits == 3
ItemTail(ln, i) ==
    LET q == SkipWhile(ln, i, Space)
        qe == SkipWhile(ln, q, Digit)
        p == SkipWhile(ln, qe, Space)
    IN  IF /\ q > i
           /\ qe > q /\ qe - q <= QtyMaxDigits
           /\ p > qe
           /\ NumberEnd(ln, p) = Len(ln) + 1
        THEN <<q, qe - 1, p>>
        ELSE <<>>

\* item_re.match(ln): the lazy (.+?) takes the fewest characters that let
\* the rest of the pattern match up to the end of the line
item_match(ln) ==
    LET ok == {k \in 1..Len(ln) : ItemTail(ln, k + 1) # <<>>}
    IN  IF ok = {} THEN None
        ELSE LET k == Min(ok)
                 g == ItemTail(ln, k + 1)
             IN  Some([name |-> SubSeq(ln, 1, k),
                       qty |-> SubSeq(ln, g[1], g[2]),
                       price |-> SubSeq(ln, g[3], Len(ln))])

\* qty = int(m.group(2))
item_qty(digits) == ToInt(digits)

\* the item of one line, as a sequence of 0 or 1 items
line_items(ln) ==
    LET m == item_match(ln)
    IN  IF m = None THEN <<>>
        ELSE LET name == strip(m[1].name)
                 qty == item_qty(m[1].qty)
                 price == ToFloat(ReplaceComma(m[1].price))
             IN  IF name # <<>> /\ \E j \in 1..Len(name) : name[j] \in Alpha
                 THEN <<[name |-> name, qty |-> qty, price |-> price]>>
                 ELSE <<>>

RECURSIVE parse_items(_)
parse_items(lines) ==
    IF lines = <<>> THEN <<>>
    ELSE line_items(Head(lines)) \o parse_items(Tail(lines))

\* a record that keeps the trimmed text instead of the text as given
raw_text_trimmed(t) == strip(t)

\* "raw_text": text
raw_text_of(t) == t

parse_receipt_text(t) ==
    LET lines == CleanLines(t)
    IN  [raw_text |-> raw_text_of(t),
         merchant |-> find_merchant(lines),
         cashier |-> TokenSearch(t, CashierRoot),
         bill_no |-> TokenSearch(t, BillRoot),
         items |-> parse_items(lines),
         subtotal |-> find_amount(t, SubtotalLabels),
         total |-> find_amount(t, TotalLabels),
         cash |-> find_amount(t, CashLabels),
         change |-> find_amount(t, ChangeLabels),
         other_fields |-> <<>>]

---------------------------------------------------------------------------
(* utils.py: order_points, four_point_transform                            *)

\* np.argmin / np.argmax: the first index holding the extreme value
argmin(v) == Min({i \in 1..Len(v) : \A j \in 1..Len(v) : v[i] <= v[j]})
argmax(v) == Min({i \in 1..Len(v) : \A j \in 1..Len(v) : v[i] >= v[j]})

\* pts.sum(axis=1)
PointSums(p) == [i \in 1..Len(p) |-> p[i][1] + p[i][2]]

\* the difference taken the other way round: first coordinate minus second
PointDiffsReversed(p) == [i \in 1..Len(p) |-> p[i][1] - p[i][2]]

\* np.diff(pts, axis=1): second coordinate minus first
PointDiffs(p) == [i \in 1..Len(p) |-> p[i][2] - p[i][1]]

\* rect[0], rect[1], rect[2], rect[3]
order_points(p) ==
    LET s == PointSums(p)
        diff == PointDiffs(p)
    IN  <<p[argmin(s)], p[argmin(diff)], p[argmax(s)], p[argmax(diff)]>>

SqDist(a, b) == (a[1] - b[1]) * (a[1] - b[1]) + (a[2] - b[2]) * (a[2] - b[2])
\* int(np.linalg.norm(v)) of a vector of squared length n
ISqrt(n) == Max({k \in 0..n : k * k <= n})

\* (maxWidth, maxHeight) of four_point_transform
TargetSize(p) ==
    LET r == order_points(p)
        tl == r[1]
        tr == r[2]
        br == r[3]
        bl == r[4]
        widthA == SqDist(br, bl)
        widthB == SqDist(tr, tl)
        heightA == SqDist(tr, br)
        heightB == SqDist(tl, bl)
    IN  <<ISqrt(IF widthA >= widthB THEN widthA ELSE widthB),
          ISqrt(IF heightA >= heightB THEN heightA ELSE heightB)>>

\* An image is known by the transform that made it, the image that transform
\* read, and its size.
Img(kind, from, w, h) == [kind |-> kind, from |-> from, w |-> w, h |-> h]
Derived(kind, src) == Img(kind, src.kind, src.w, src.h)

\* cv2.warpPerspective(image, M, dsize): the output has size dsize, and the
\* size of the source image when dsize is empty (a width or height <= 0)
warpPerspective(image, dsize) ==
    IF dsize[1] <= 0 \/ dsize[2] <= 0
    THEN Img("warped", image.kind, image.w, image.h)
    ELSE Img("warped", image.kind, dsize[1], dsize[2])

four_point_transform(image, p) == warpPerspective(image, TargetSize(p))

---------------------------------------------------------------------------
(* receipt_processor.py: ReceiptProcessor.process                          *)
(* self.show only opens windows (show_window swallows cv2.error) and       *)
(* changes nothing process() computes, so it is not part of the state.     *)

\* size of the photographs of the model, in pixels
ImageWidth == 5
ImageHeight == 5
\* at most this many contours come out of cv2.findContours
MaxContours == 2
\* cnts[:10]
TopContours == 10
\* len(approx) == 4
QuadVertices == 4

\* the polygons cv2.approxPolyDP yields for the contours of a photograph: an
\* upright rectangle, a tilted quadrilateral, a square standing on a corner,
\* a tall rhombus, a triangle and a pentagon
Polygons ==
    { << <<0, 0>>, <<3, 0>>, <<3, 4>>, <<0, 4>> >>,
      << <<1, 0>>, <<4, 1>>, <<3, 4>>, <<0, 3>> >>,
      << <<2, 0>>, <<4, 2>>, <<2, 4>>, <<0, 2>> >>,
      << <<1, 0>>, <<2, 2>>, <<1, 4>>, <<0, 2>> >>,
      << <<0, 0>>, <<4, 0>>, <<0, 4>> >>,
      << <<0, 1>>, <<2, 0>>, <<4, 1>>, <<3, 4>>, <<1, 4>> >> }

\* what cv2.findContours can return: up to MaxContours contours, in any order
ContourLists == UNION {[1..n -> Polygons] : n \in 0..MaxContours}

\* cv2.contourArea, doubled (the shoelace sum), which orders contours alike
contourArea(c) ==
    LET n == Len(c)
        nxt(i) == IF i = n THEN 1 ELSE i + 1
        term(i) == c[i][1] * c[nxt(i)][2] - c[nxt(i)][1] * c[i][2]
        RECURSIVE sum(_)
        sum(i) == IF i = 0 THEN 0 ELSE term(i) + sum(i - 1)
        a == sum(n)
    IN  IF a < 0 THEN -a ELSE a

\* sorted(cnts, key=cv2.contourArea, reverse=True): stable, so contours of
\* equal area keep their order
RECURSIVE SortByAreaDesc(_)
SortByAreaDesc(cs) ==
    IF cs = <<>> THEN <<>>
    ELSE LET i == argmax([k \in 1..Len(cs) |-> contourArea(cs[k])])
         IN  <<cs[i]>> \o SortByAreaDesc(SubSeq(cs, 1, i - 1) \o SubSeq(cs, i + 1, Len(cs)))

TopSorted(cs) ==
    LET sorted == SortByAreaDesc(cs)
    IN  SubSeq(sorted, 1, IF Len(sorted) < TopContours THEN Len(sorted) ELSE TopContours)

\* the for loop over cnts: the first approximation with exactly 4 vertices
find_quad(cnts) ==
    LET quads == {i \in 1..Len(cnts) : Len(cnts[i]) = QuadVertices}
    IN  IF quads = {} THEN None ELSE Some(cnts[Min(quads)])

\* how the try block can end: four_point_transform returns, or it raises
\* before warped is assigned, or save_step raises after warped was assigned
TryOutcomes(save_steps) ==
    {"ok", "transform_raised"} \cup (IF save_steps THEN {"save_raised"} ELSE {})

\* an except clause that leaves warped as the try block assigned it
warped_kept_on_error(gray, receipt_quad, outcome) ==
    IF receipt_quad = None THEN None
    ELSE IF outcome \in {"ok", "save_raised"}
         THEN Some(four_point_transform(gray, receipt_quad[1]))
    ELSE None

\* warped = None; try: warped = four_point_transform(gray, receipt_quad) ...
\* except Exception: warped = None
warped_after_try(gray, receipt_quad, outcome) ==
    IF receipt_quad = None THEN None
    ELSE IF outcome = "ok" THEN Some(four_point_transform(gray, receipt_quad[1]))
    ELSE None

\* working = warped if warped is not None else gray
working_image(gray, warped) == IF warped # None THEN warped[1] ELSE gray

threshold_tag(adaptive) == IF adaptive THEN "th_adaptive" ELSE "th_otsu"

\* ProcessResult(ocr_ready=closed, gray=gray, steps=steps_saved, warped=warped)
ProcessResult(closed, gray, steps_saved, warped) ==
    [ocr_ready |-> closed, gray |-> gray, steps |-> steps_saved, warped |-> warped]

EmptyFrame ==
    [image |-> None, gray |-> None, eq |-> None, blur |-> None, edges |-> None,
     cnts |-> None, receipt_quad |-> None, warped |-> None, th |-> None,
     opened |-> None, closed |-> None, steps_saved |-> {}]

\* steps_saved after `if self.save_steps: steps_saved[tag] = save_step(...)`
Saved(tags) == IF opts.save_steps THEN loc.steps_saved \cup tags ELSE loc.steps_saved

Load ==
    /\ stage = "load"
    /\ IF opts.readable
       THEN /\ loc' = [loc EXCEPT !.image = Some(Img("orig", "file", ImageWidth, ImageHeight)),
                                  !.steps_saved = Saved({"orig"})]
            /\ stage' = "grayscale"
            /\ trace' = Append(trace, "load")
       ELSE \* raise FileNotFoundError
            /\ stage' = "raised"
            /\ UNCHANGED <<loc, trace>>
    /\ UNCHANGED <<opts, corr, result, main_vars, ocr_vars, geom_vars>>

Grayscale ==
    /\ stage = "grayscale"
    /\ loc' = [loc EXCEPT !.gray = Some(Derived("gray", loc.image[1])),
                          !.steps_saved = Saved({"gray"})]
    /\ stage' = "clahe"
    /\ trace' = Append(trace, "grayscale")
    /\ UNCHANGED <<opts, corr, result, main_vars, ocr_vars, geom_vars>>

Clahe ==
    /\ stage = "clahe"
    /\ loc' = [loc EXCEPT !.eq = Some(Derived("clahe", loc.gray[1])),
                          !.steps_saved = Saved({"clahe"})]
    /\ stage' = "blur"
    /\ trace' = Append(trace, "clahe")
    /\ UNCHANGED <<opts, corr, result, main_vars, ocr_vars, geom_vars>>

Blur ==
    /\ stage = "blur"
    /\ loc' = [loc EXCEPT !.blur = Some(Derived("blur", loc.eq[1])),
                          !.steps_saved = Saved({"blur"})]
    /\ stage' = "edges"
    /\ trace' = Append(trace, "blur")
    /\ UNCHANGED <<opts, corr, result, main_vars, ocr_vars, geom_vars>>

Edges ==
    /\ stage = "edges"
    /\ loc' = [loc EXCEPT !.edges = Some(Derived("edges", loc.blur[1])),
                          !.steps_saved = Saved({"edges"})]
    /\ stage' = "quad_search"
    /\ trace' = Append(trace, "edges")
    /\ UNCHANGED <<opts, corr, result, main_vars, ocr_vars, geom_vars>>

QuadSearch ==
    /\ stage = "quad_search"
    /\ \E found \in ContourLists :
          LET cnts == TopSorted(found)
          IN  loc' = [loc EXCEPT !.cnts = Some(cnts), !.receipt_quad = find_quad(cnts)]
    /\ stage' = "perspective"
    /\ trace' = Append(trace, "quad_search")
    /\ UNCHANGED <<opts, corr, result, main_vars, ocr_vars, geom_vars>>

Perspective ==
    /\ stage = "perspective"
    /\ IF loc.receipt_quad = None
       THEN /\ corr' = "none"
            /\ loc' = [loc EXCEPT !.warped = warped_after_try(loc.gray[1], loc.receipt_quad, "ok")]
       ELSE \E outcome \in TryOutcomes(opts.save_steps) :
                /\ corr' = outcome
                /\ loc' = [loc EXCEPT
                             !.warped = warped_after_try(loc.gray[1], loc.receipt_quad, outcome),
                             !.steps_saved = IF outcome = "ok" THEN Saved({"warped"})
                                             ELSE loc.steps_saved]
    /\ stage' = "binarize"
    /\ trace' = IF loc.receipt_quad = None THEN trace ELSE Append(trace, "perspective")
    /\ UNCHANGED <<opts, result, main_vars, ocr_vars, geom_vars>>

Binarize ==
    /\ stage = "binarize"
    /\ LET tag == threshold_tag(opts.adaptive)
       IN  loc' = [loc EXCEPT
                     !.th = Some(Derived(tag, working_image(loc.gray[1], loc.warped))),
                     !.steps_saved = Saved({tag})]
    /\ stage' = "open"
    /\ trace' = Append(trace, "binarize")
    /\ UNCHANGED <<opts, corr, result, main_vars, ocr_vars, geom_vars>>

MorphOpen ==
    /\ stage = "open"
    /\ loc' = [loc EXCEPT !.opened = Some(Derived("morph_open", loc.th[1]))]
    /\ stage' = "close"
    /\ trace' = Append(trace, "open")
    /\ UNCHANGED <<opts, corr, result, main_vars, ocr_vars, geom_vars>>

\* closing applied to the thresholded image instead of the opened one
MorphCloseOnThreshold ==
    /\ stage = "close"
    /\ loc' = [loc EXCEPT !.closed = Some(Derived("morph_close", loc.th[1])),
                          !.steps_saved = Saved({"morph_open", "morph_close"})]
    /\ stage' = "return"
    /\ trace' = Append(trace, "close")
    /\ UNCHANGED <<opts, corr, result, main_vars, ocr_vars, geom_vars>>

\* closed = cv2.morphologyEx(opened, cv2.MORPH_CLOSE, kernel, iterations=1)
MorphClose ==
    /\ stage = "close"
    /\ loc' = [loc EXCEPT !.closed = Some(Derived("morph_close", loc.opened[1])),
                          !.steps_saved = Saved({"morph_open", "morph_close"})]
    /\ stage' = "return"
    /\ trace' = Append(trace, "close")
    /\ UNCHANGED <<opts, corr, result, main_vars, ocr_vars, geom_vars>>

Return ==
    /\ stage = "return"
    /\ result' = Some(ProcessResult(loc.closed[1], loc.gray[1], loc.steps_saved, loc.warped))
    /\ stage' = "returned"
    /\ UNCHANGED <<opts, loc, trace, corr, main_vars, ocr_vars, geom_vars>>

Process ==
    \/ Load \/ Grayscale \/ Clahe \/ Blur \/ Edges \/ QuadSearch
    \/ Perspective \/ Binarize \/ MorphOpen \/ MorphClose \/ Return

---------------------------------------------------------------------------
(* ocr_engine.py: ocr_image on a ProcessResult                             *)

\* what pytesseract.image_to_string may hand back for an image, before the
\* trailing .strip(): nothing, blank space only, or text with space around it
OcrOutputs ==
    { <<>>,
      <<" ", "\n">>,
      <<" ", "W", "a", "t", "e", "r", " ", "2", " ", "2", ".", "0", "0", " ", "\n">>,
      <<"S", "T", "O", "R", "E", " ", "A", "B", "C", "\n", "S", "u", "b", " ", "T", "o", "t", "a", "l", " ", "4", "5", ".", "0", "0", "\n", "T", "O", "T", "A", "L", " ", "4", "5", ".", "0", "0", "\n", "C", "a", "s", "h", " ", "5", "0", ".", "0", "0", "\n", "C", "h", "a", "n", "g", "e", " ", "5", ".", "0", "0", "\n">> }
\* image_to_string raising (TesseractError, TesseractNotFoundError, ...)
OcrRaises == <<"TesseractError">>
OcrResults == OcrOutputs \cup {OcrRaises}

\* `not text and image_or_result.warped is not None`
use_warped(txt, r) == txt = <<>> /\ r.warped # None

\* a fallback that forgets `not text`
use_gray_always(txt, r) == "gray" \in DOMAIN r

\* `not text and hasattr(image_or_result, "gray")`
use_gray(txt, r) == txt = <<>> /\ "gray" \in DOMAIN r

\* text = pytesseract.image_to_string(<field>, ...).strip()
Attempt(field, image, next) ==
    \E r \in OcrResults :
        IF r = OcrRaises
        THEN /\ ocr_pc' = "raised"
             /\ UNCHANGED <<ocr_text, attempts>>
        ELSE /\ ocr_text' = strip(r)
             /\ attempts' = Append(attempts, [field |-> field, image |-> image,
                                              raw |-> r, text |-> strip(r)])
             /\ ocr_pc' = next

OcrReady ==
    /\ ocr_pc = "ocr_ready"
    /\ Attempt("ocr_ready", ocr_arg.ocr_ready, "warped")
    /\ UNCHANGED <<ocr_arg, main_vars, proc_vars, geom_vars>>

OcrWarped ==
    /\ ocr_pc = "warped"
    /\ IF use_warped(ocr_text, ocr_arg)
       THEN Attempt("warped", ocr_arg.warped[1], "gray")
       ELSE ocr_pc' = "gray" /\ UNCHANGED <<ocr_text, attempts>>
    /\ UNCHANGED <<ocr_arg, main_vars, proc_vars, geom_vars>>

OcrGray ==
    /\ ocr_pc = "gray"
    /\ IF use_gray(ocr_text, ocr_arg)
       THEN Attempt("gray", ocr_arg.gray, "return")
       ELSE ocr_pc' = "return" /\ UNCHANGED <<ocr_text, attempts>>
    /\ UNCHANGED <<ocr_arg, main_vars, proc_vars, geom_vars>>

OcrReturn ==
    /\ ocr_pc = "return"
    /\ ocr_pc' = "done"
    /\ UNCHANGED <<ocr_arg, ocr_text, attempts, main_vars, proc_vars, geom_vars>>

OcrImage == OcrReady \/ OcrWarped \/ OcrGray \/ OcrReturn

---------------------------------------------------------------------------
(* shoper.py: main                                                         *)

\* stem of the image path
Base == "receipt"

\* rp.process raised (FileNotFoundError): main ends with the exception
MainProcessRaised ==
    /\ main_pc = "process"
    /\ stage = "raised"
    /\ main_pc' = "aborted"
    /\ UNCHANGED <<text, summary, written, results, idx, combined, combined_written,
                   proc_vars, ocr_vars, geom_vars>>

\* text = ocr_image(result, psm=args.psm); the frame of process() is gone
MainOcr ==
    /\ main_pc = "process"
    /\ stage = "returned"
    /\ main_pc' = "ocr"
    /\ ocr_arg' = result[1]
    /\ ocr_pc' = "ocr_ready"
    /\ ocr_text' = <<>>
    /\ attempts' = <<>>
    /\ loc' = EmptyFrame
    /\ UNCHANGED <<text, summary, written, results, idx, combined, combined_written,
                   stage, opts, trace, corr, result, geom_vars>>

\* ocr_image returned: its value is bound to text
OcrDone ==
    /\ main_pc = "ocr"
    /\ ocr_pc = "done"
    /\ text' = ocr_text
    /\ main_pc' = "parse"
    /\ UNCHANGED <<summary, written, results, idx, combined, combined_written,
                   proc_vars, ocr_vars, geom_vars>>

\* ocr_image raised: neither driver catches it
OcrFailed ==
    /\ main_pc = "ocr"
    /\ ocr_pc = "raised"
    /\ main_pc' = "aborted"
    /\ UNCHANGED <<text, summary, written, results, idx, combined, combined_written,
                   proc_vars, ocr_vars, geom_vars>>

\* summary = parse_receipt_text(text)
Parse ==
    /\ main_pc = "parse"
    /\ summary' = Some(parse_receipt_text(text))
    /\ main_pc' = "write"
    /\ UNCHANGED <<text, written, results, idx, combined, combined_written,
                   proc_vars, ocr_vars, geom_vars>>

\* json.dump(summary, f) to <base>_summary.json
MainWrite ==
    /\ main_pc = "write"
    /\ written' = Append(written, Base)
    /\ main_pc' = "done"
    /\ UNCHANGED <<text, summary, results, idx, combined, combined_written,
                   proc_vars, ocr_vars, geom_vars>>

---------------------------------------------------------------------------
(* shoper_multi.py: main                                                   *)

\* at most this many receipt regions in one photograph
MaxRegions == 2

\* the ProcessResults of process_all: one per region, with or without a
\* perspective-corrected image
RegionResults ==
    LET gray == Img("gray", "orig", ImageWidth, ImageHeight)
        warped == Img("warped", "gray", ImageWidth - 1, ImageHeight - 1)
        Closed(w) == Img("morph_close", "morph_open", w.w, w.h)
    IN  { ProcessResult(Closed(gray), gray, {}, None),
          ProcessResult(Closed(warped), gray, {}, Some(warped)) }

\* results = mrp.process_all(args.image): the base of a region is its index
ResultLists ==
    UNION { {[i \in 1..n |-> <<i, f[i]>>] : f \in [1..n -> RegionResults]} :
            n \in 0..MaxRegions }

\* for base, process_result in results: text = ocr_image(process_result, ...)
MultiFor ==
    /\ main_pc = "for"
    /\ idx < Len(results)
    /\ idx' = idx + 1
    /\ main_pc' = "ocr"
    /\ ocr_arg' = results[idx + 1][2]
    /\ ocr_pc' = "ocr_ready"
    /\ ocr_text' = <<>>
    /\ attempts' = <<>>
    /\ UNCHANGED <<text, summary, written, results, combined, combined_written,
                   proc_vars, geom_vars>>

\* the per-receipt JSON, then combined.append(...)
MultiWrite ==
    /\ main_pc = "write"
    /\ written' = Append(written, results[idx][1])
    /\ combined' = Append(combined, [receipt |-> results[idx][1], summary |-> summary[1]])
    /\ main_pc' = "for"
    /\ UNCHANGED <<text, summary, results, idx, combined_written,
                   proc_vars, ocr_vars, geom_vars>>

\* after the loop: the combined JSON
MultiCombined ==
    /\ main_pc = "for"
    /\ idx = Len(results)
    /\ combined_written' = TRUE
    /\ main_pc' = "done"
    /\ UNCHANGED <<text, summary, written, results, idx, combined,
                   proc_vars, ocr_vars, geom_vars>>

---------------------------------------------------------------------------
(* order_points on its own                                                 *)

\* the input points have coordinates 0..MaxCoord
MaxCoord == 3
GridPoints == (0..MaxCoord) \X (0..MaxCoord)
\* 4 pairwise distinct points, in any order
PointLists ==
    {p \in [1..4 -> GridPoints] : \A i, j \in 1..4 : i # j => p[i] # p[j]}

OrderPoints ==
    /\ main_pc = "geometry"
    /\ rect = None
    /\ rect' = Some(order_points(pts))
    /\ UNCHANGED <<pts, rect2, main_vars, proc_vars, ocr_vars>>

OrderAgain ==
    /\ main_pc = "geometry"
    /\ rect # None
    /\ rect2 = None
    /\ rect2' = Some(order_points(rect[1]))
    /\ UNCHANGED <<pts, rect, main_vars, proc_vars, ocr_vars>>

---------------------------------------------------------------------------
(* The texts parse_receipt_text is checked on.                             *)

\* at most this many lines drawn from Lines, and this many blank characters
MaxLines == 2
MaxBlank == 3

NL == <<"\n">>
RECURSIVE JoinLines(_)
JoinLines(ls) ==
    IF ls = <<>> THEN <<>>
    ELSE IF Len(ls) = 1 THEN ls[1]
    ELSE ls[1] \o NL \o JoinLines(Tail(ls))

Merchants == { <<"S", "T", "O", "R", "E", " ", "A", "B", "C">>, <<"M", "i", "n", "i", " ", "M", "a", "r", "t", " ", "7">> }
Amounts == { <<"4", "5", ".", "0", "0">>, <<"5", "0">>, <<"5", ",", "5">> }
SubTotalPrefix == <<"S", "u", "b", " ", "T", "o", "t", "a", "l", " ">>
TotalPrefix == <<"T", "O", "T", "A", "L", " ">>
CashPrefix == <<"C", "a", "s", "h", " ">>
ChangePrefix == <<"C", "h", "a", "n", "g", "e", " ">>

\* a merchant line, then 'Sub Total a', 'TOTAL b', 'Cash c', 'Change d'
ReceiptText(m, a, b, c, d) ==
    JoinLines(<<m, SubTotalPrefix \o a, TotalPrefix \o b, CashPrefix \o c,
                ChangePrefix \o d>>)
ReceiptTexts ==
    {ReceiptText(m, q[1], q[2], q[3], q[4]) :
        m \in Merchants, q \in Amounts \X Amounts \X Amounts \X Amounts}

Lines ==
    { <<"W", "a", "t", "e", "r", " ", "2", " ", "2", ".", "0", "0">>,
      <<"W", "a", "t", "e", "r", " ", "0", " ", "2", ".", "0", "0">>,
      <<"1", "2", "3", "4", " ", "5", " ", "6">>,
      <<"C", "a", "s", "h", "i", "e", "r", "s", "n", ":", " ", "J", "o", "h", "n">>,
      <<"B", "i", "l", "l", "#", "A", "-", "1", "2">>,
      <<"T", "O", "T", "A", "L", ":", " ", "1", "2", ",", "5", "0">>,
      <<"T", "o", "t", "a", "l", " ", "-", "5">>,
      <<" ", "\t">>,
      <<"F", "r", "i", "e", "d", " ", "C", "h", "i", "c", "k", "e", "n", " ", "2", " ", "1", "0", "0", "0">>,
      <<"R", "e", "c", "e", "i", "p", "t", " ", "N", "o", " ", "2", "0", "2", "4", " ", "1", "5">>,
      <<"B", "a", "l", "a", "n", "c", "e", " ", "=", " ", "3", ".", "5">>,
      <<"a", "b">> }
LineTexts ==
    UNION { {JoinLines(f) : f \in [1..n -> Lines]} : n \in 0..MaxLines }

BlankTexts == UNION {[1..n -> Space] : n \in 0..MaxBlank}

ParseInputs == ReceiptTexts \cup LineTexts \cup BlankTexts

---------------------------------------------------------------------------
(* Specifications                                                          *)

\* shoper.py on one photograph
Init ==
    /\ main_pc = "process"
    /\ text = <<>> /\ summary = None /\ written = <<>>
    /\ results = <<>> /\ idx = 0 /\ combined = <<>> /\ combined_written = FALSE
    /\ stage = "load"
    /\ opts \in [readable : BOOLEAN, adaptive : BOOLEAN, save_steps : BOOLEAN]
    /\ loc = EmptyFrame /\ trace = <<>> /\ corr = "none" /\ result = None
    /\ ocr_pc = "idle" /\ ocr_arg = None /\ ocr_text = <<>> /\ attempts = <<>>
    /\ pts = <<>> /\ rect = None /\ rect2 = None

Next ==
    \/ Process
    \/ MainProcessRaised \/ MainOcr
    \/ OcrImage
    \/ OcrDone \/ OcrFailed \/ Parse \/ MainWrite

Spec == Init /\ [][Next]_vars

\* shoper_multi.py on the regions process_all found
InitMulti ==
    /\ main_pc = "for"
    /\ text = <<>> /\ summary = None /\ written = <<>>
    /\ results \in ResultLists
    /\ idx = 0 /\ combined = <<>> /\ combined_written = FALSE
    /\ stage = "idle"
    /\ opts = [readable |-> TRUE, adaptive |-> TRUE, save_steps |-> FALSE]
    /\ loc = EmptyFrame /\ trace = <<>> /\ corr = "none" /\ result = None
    /\ ocr_pc = "idle" /\ ocr_arg = None /\ ocr_text = <<>> /\ attempts = <<>>
    /\ pts = <<>> /\ rect = None /\ rect2 = None

NextMulti ==
    \/ MultiFor \/ OcrImage \/ OcrDone \/ OcrFailed \/ Parse
    \/ MultiWrite \/ MultiCombined

SpecMulti == InitMulti /\ [][NextMulti]_vars

\* parse_receipt_text on a text
InitParse ==
    /\ main_pc = "parse"
    /\ text \in ParseInputs
    /\ summary = None /\ written = <<>>
    /\ results = <<>> /\ idx = 0 /\ combined = <<>> /\ combined_written = FALSE
    /\ stage = "idle"
    /\ opts = [readable |-> TRUE, adaptive |-> TRUE, save_steps |-> FALSE]
    /\ loc = EmptyFrame /\ trace = <<>> /\ corr = "none" /\ result = None
    /\ ocr_pc = "idle" /\ ocr_arg = None /\ ocr_text = <<>> /\ attempts = <<>>
    /\ pts = <<>> /\ rect = None /\ rect2 = None

NextParse == Parse

SpecParse == InitParse /\ [][NextParse]_vars

\* order_points on 4 points, and again on its own result
InitGeom ==
    /\ main_pc = "geometry"
    /\ pts \in PointLists
    /\ rect = None /\ rect2 = None
    /\ text = <<>> /\ summary = None /\ written = <<>>
    /\ results = <<>> /\ idx = 0 /\ combined = <<>> /\ combined_written = FALSE
    /\ stage = "idle"
    /\ opts = [readable |-> TRUE, adaptive |-> TRUE, save_steps |-> FALSE]
    /\ loc = EmptyFrame /\ trace = <<>> /\ corr = "none" /\ result = None
    /\ ocr_pc = "idle" /\ ocr_arg = None /\ ocr_text = <<>> /\ attempts = <<>>

NextGeom == OrderPoints \/ OrderAgain

SpecGeom == InitGeom /\ [][NextGeom]_vars

---------------------------------------------------------------------------
(* The properties checked                                                  *)

Range(f) == {f[i] : i \in DOMAIN f}
NonEmptyAttempts == {i \in 1..Len(attempts) : attempts[i].text # <<>>}
FieldRank(f) == CASE f = "ocr_ready" -> 1 [] f = "warped" -> 2 [] f = "gray" -> 3

\* C1: ocr_image on a ProcessResult runs OCR first on ocr_ready; on warped
\* only if the trimmed text of ocr_ready is empty and warped is present; on
\* gray only if every earlier attempt gave empty trimmed text.  No image is
\* tried after a non-empty result, and the text returned is the trimmed text
\* of the first non-empty attempt, or the empty text when every attempt (on
\* each image the result holds) came back empty.
C1_OcrFallbackChain ==
    ocr_pc \in {"warped", "gray", "return", "done"} =>
        LET n == Len(attempts)
        IN  /\ n >= 1
            /\ attempts[1].field = "ocr_ready"
            /\ attempts[1].image = ocr_arg.ocr_ready
            /\ \A i \in 1..n :
                  /\ attempts[i].text = strip(attempts[i].raw)
                  /\ \A j \in 1..n : i < j =>
                        FieldRank(attempts[i].field) < FieldRank(attempts[j].field)
                  /\ attempts[i].field = "warped" =>
                        /\ attempts[1].text = <<>>
                        /\ ocr_arg.warped # None
                        /\ attempts[i].image = ocr_arg.warped[1]
                  /\ attempts[i].field = "gray" =>
                        /\ \A j \in 1..(i - 1) : attempts[j].text = <<>>
                        /\ attempts[i].image = ocr_arg.gray
                  /\ i < n => attempts[i].text = <<>>
            /\ ocr_pc \in {"return", "done"} =>
                  /\ ocr_text = (IF NonEmptyAttempts = {} THEN <<>>
                                 ELSE attempts[Min(NonEmptyAttempts)].text)
                  /\ NonEmptyAttempts = {} =>
                        /\ ocr_arg.warped # None =>
                              \E i \in 1..n : attempts[i].field = "warped"
                        /\ \E i \in 1..n : attempts[i].field = "gray"

\* ocr_image returned the text of gray after ocr_ready and warped gave only
\* blank space
C1_Witness ==
    /\ ocr_pc = "done"
    /\ Len(attempts) = 3
    /\ attempts[1].raw # <<>>
    /\ attempts[3].field = "gray"
    /\ ocr_text # <<>>

\* process() has returned and its frame is still there to look at
AtReturn == stage = "returned" /\ main_pc = "process" /\ result # None

\* C2 as claimed: in every ProcessResult returned, ocr_ready and gray are
\* present, and warped is present if and only if the quadrilateral search
\* accepted a 4-vertex contour.
C2_WarpedIffQuadAccepted ==
    AtReturn =>
        /\ result[1].ocr_ready = loc.closed[1] /\ loc.closed # None
        /\ result[1].gray = loc.gray[1] /\ loc.gray # None
        /\ (result[1].warped # None <=> loc.receipt_quad # None)

\* C2 as amended: ocr_ready and gray are present; warped is present if and
\* only if a 4-vertex contour was accepted and the try block of the
\* perspective correction ended without an exception.  Without an accepted
\* quadrilateral warped is always absent.
C2_WarpedIffQuadCorrected ==
    AtReturn =>
        /\ result[1].ocr_ready = loc.closed[1] /\ loc.closed # None
        /\ result[1].gray = loc.gray[1] /\ loc.gray # None
        /\ (result[1].warped # None <=> (loc.receipt_quad # None /\ corr = "ok"))
        /\ loc.receipt_quad = None => result[1].warped = None

\* a quadrilateral was accepted, saving the corrected image raised, and the
\* result has no warped
C2_Witness ==
    /\ AtReturn
    /\ loc.receipt_quad # None
    /\ corr = "save_raised"
    /\ result[1].warped = None

\* C3: in a multi-receipt run a raised error of OCR on one region does not
\* abort the others: once main has ended, every other region has its JSON
\* written and the combined document exists.
C3_RegionsIsolated ==
    main_pc \in {"done", "aborted"} =>
        /\ \A i \in 1..Len(results) :
              (main_pc = "aborted" /\ i = idx) \/ results[i][1] \in Range(written)
        /\ combined_written

\* C4: whenever the accepted quadrilateral gives a target width or height of
\* zero, warped is absent in the ProcessResult, binarization read the
\* uncorrected grayscale image, and no zero-sized image reached
\* binarization, morphology or ocr_ready.
C4_DegenerateQuadDiscarded ==
    (/\ AtReturn
     /\ loc.receipt_quad # None
     /\ \E k \in 1..2 : TargetSize(loc.receipt_quad[1])[k] <= 0) =>
        /\ result[1].warped = None
        /\ loc.th[1].from = "gray"
        /\ \A im \in {loc.th[1], loc.opened[1], result[1].ocr_ready} : im.w > 0 /\ im.h > 0

Amount(a) == Some(ToFloat(ReplaceComma(a)))

\* C5: for a text of a merchant line followed by 'Sub Total a', 'TOTAL b',
\* 'Cash c', 'Change d', the record has subtotal = a, total = b, cash = c and
\* change = d.
C5_EachLabelItsAmount ==
    summary # None =>
        \A m \in Merchants, q \in Amounts \X Amounts \X Amounts \X Amounts :
            text = ReceiptText(m, q[1], q[2], q[3], q[4]) =>
                /\ summary[1].subtotal = Amount(q[1])
                /\ summary[1].total = Amount(q[2])
                /\ summary[1].cash = Amount(q[3])
                /\ summary[1].change = Amount(q[4])

\* C6: every item of the record has an integer qty >= 1 and a price >= 0,
\* and each of subtotal, total, cash, change is absent or non-negative.
C6_ItemAndAmountRanges ==
    summary # None =>
        /\ \A i \in 1..Len(summary[1].items) :
              /\ summary[1].items[i].qty \in Nat
              /\ summary[1].items[i].qty >= 1
              /\ summary[1].items[i].price >= 0
        /\ \A v \in {summary[1].subtotal, summary[1].total, summary[1].cash,
                     summary[1].change} : v = None \/ v[1] >= 0

IsBlank(t) == \A i \in 1..Len(t) : t[i] \in Space
AllAbsent(r) ==
    /\ r.merchant = None /\ r.cashier = None /\ r.bill_no = None
    /\ r.subtotal = None /\ r.total = None /\ r.cash = None /\ r.change = None
    /\ r.items = <<>>

\* C7 as claimed: for an empty or whitespace-only text the record has the
\* empty string as raw text, every optional field absent and no items.
C7_BlankTextEmptyRaw ==
    (main_pc = "write" /\ IsBlank(text)) =>
        /\ summary # None
        /\ summary[1].raw_text = <<>>
        /\ AllAbsent(summary[1])

\* C7 as amended: for an empty or whitespace-only text parse_receipt_text
\* returns a record whose raw text is the input text unchanged (the empty
\* string only for the empty input), every optional field absent and no
\* items.
C7_BlankTextKeptRaw ==
    (main_pc = "write" /\ IsBlank(text)) =>
        /\ summary # None
        /\ summary[1].raw_text = text
        /\ AllAbsent(summary[1])

\* a text of blank space only, of more than one line, has been parsed
C7_Witness ==
    /\ main_pc = "write"
    /\ summary # None
    /\ IsBlank(text)
    /\ Len(text) >= 2
    /\ \E i \in 1..Len(text) : text[i] \in LineBreak

\* C8: order_points is idempotent: order_points(order_points(p)) equals
\* order_points(p), ties on x+y or on the difference included.
C8_OrderPointsIdempotent ==
    rect2 # None => rect2 = rect

\* C9: for 4 pairwise distinct points the result of order_points is a
\* permutation of the input: no corner dropped, none twice.
C9_OrderPointsPermutation ==
    rect # None =>
        /\ Range(rect[1]) = Range(pts)
        /\ \A i, j \in 1..4 : i # j => rect[1][i] # rect[1][j]

Sum(q) == q[1] + q[2]
XMinusY(q) == q[1] - q[2]

\* C10 as claimed: order_points returns [top-left, top-right, bottom-right,
\* bottom-left] with top-left minimizing x+y, bottom-right maximizing x+y,
\* top-right minimizing x-y and bottom-left maximizing x-y.
C10_CornersAsClaimed ==
    rect # None =>
        LET r == rect[1]
        IN  /\ Range(r) \subseteq Range(pts)
            /\ \A q \in Range(pts) :
                  /\ Sum(r[1]) <= Sum(q)
                  /\ Sum(r[3]) >= Sum(q)
                  /\ XMinusY(r[2]) <= XMinusY(q)
                  /\ XMinusY(r[4]) >= XMinusY(q)

\* C10 as amended: top-left minimizes x+y, bottom-right maximizes x+y,
\* top-right maximizes x-y (it minimizes y-x) and bottom-left minimizes x-y
\* (it maximizes y-x).
C10_CornersBySumAndDiff ==
    rect # None =>
        LET r == rect[1]
        IN  /\ Range(r) \subseteq Range(pts)
            /\ \A q \in Range(pts) :
                  /\ Sum(r[1]) <= Sum(q)
                  /\ Sum(r[3]) >= Sum(q)
                  /\ XMinusY(r[2]) >= XMinusY(q)
                  /\ XMinusY(r[4]) <= XMinusY(q)

\* an upright rectangle was ordered: its four corners came out distinct, the
\* top-right one to the right of the top-left one
C10_Witness ==
    /\ rect # None
    /\ Cardinality(Range(rect[1])) = 4
    /\ rect[1][2][1] > rect[1][1][1]
    /\ rect[1][2][2] = rect[1][1][2]
    /\ rect[1][4][1] = rect[1][1][1]
    /\ rect[1][3] = <<rect[1][2][1], rect[1][4][2]>>

\* the stages of process in program order; the correction is entered only
\* when a quadrilateral was found
StageOrder ==
    <<"load", "grayscale", "clahe", "blur", "edges", "quad_search",
      "perspective", "binarize", "open", "close">>

StageOrderUncorrected ==
    <<"load", "grayscale", "clahe", "blur", "edges", "quad_search",
      "binarize", "open", "close">>

IsPrefix(s, t) == Len(s) <= Len(t) /\ s = SubSeq(t, 1, Len(s))

\* C11: the stages of process execute once each in the fixed order load,
\* grayscale, contrast enhancement, blur, edge detection, quadrilateral
\* search, optional perspective correction, binarization, opening, closing,
\* none re-entered: at every moment the stages executed so far are a prefix
\* of that order, and a run that returned executed all of it (the
\* correction exactly when a quadrilateral was found). Opening ran on the
\* thresholded image, closing on the output of opening, and ocr_ready is
\* the output of closing.
C11_StagesOnceInOrder ==
    /\ IsPrefix(trace, StageOrder) \/ IsPrefix(trace, StageOrderUncorrected)
    /\ result # None => trace \in {StageOrder, StageOrderUncorrected}
    /\ AtReturn =>
          /\ trace = IF loc.receipt_quad = None THEN StageOrderUncorrected
                                               ELSE StageOrder
          /\ loc.opened = Some(Derived("morph_open", loc.th[1]))
          /\ loc.closed = Some(Derived("morph_close", loc.opened[1]))
          /\ result[1].ocr_ready = loc.closed[1]
          /\ result[1].ocr_ready.kind = "morph_close"
          /\ result[1].ocr_ready.from = "morph_open"

\* a run returned after all ten stages, the perspective correction included
C11_Witness ==
    /\ AtReturn
    /\ trace = StageOrder
    /\ corr = "ok"
    /\ result[1].ocr_ready = loc.closed[1]

=============================================================================
